---- MODULE Spec2Model ----
(***************************************************************************)
(* Background task orchestration of youtube_downloader.py: the Coordinator *)
(* (YouTubeDownloader.handle_events / update / run), the Fetch Worker      *)
(* (fetch_video_info), the Download Worker (download_videos), the message  *)
(* queue between them and the cancellation event.                          *)
(*                                                                         *)
(* Python values are modelled as follows.  A dict is a function whose      *)
(* DOMAIN is the set of keys present; d.get(k) in an `or` chain reads a    *)
(* missing key as a falsy value ("" or 0), which the chain treats exactly  *)
(* like None.  A list object lives in `heap` under its identity, so that   *)
(* two references to one list see each other's writes.  Strings are TLA+   *)
(* strings; f-strings are built with \o and ToString.                      *)
(***************************************************************************)
EXTENDS Integers, Sequences, FiniteSets, TLC

VARIABLES
    url_text,         \* self.url_input.text
    videos,           \* self.videos: identity of the list object it refers to
    heap,             \* list objects: identity -> sequence of VideoInfo
    status_text,      \* self.status_text
    progress_text,    \* self.progress_text
    fetch_thread,     \* self.fetch_thread: 0 is None, k the k-th Thread started
    download_thread,  \* self.download_thread: 0 is None
    cancel_download,  \* self.cancel_download (threading.Event)
    message_queue,    \* self.message_queue (queue.Queue), head first
    fetch_enabled,    \* self.fetch_button.enabled
    download_enabled, \* self.download_button.enabled
    cancel_enabled,   \* self.cancel_button.enabled
    running,          \* self.running; False once run() has left its loop
    fw,               \* locals of every fetch_video_info thread
    dw                \* locals of every download_videos thread

vars == << url_text, videos, heap, status_text, progress_text, fetch_thread,
           download_thread, cancel_download, message_queue, fetch_enabled,
           download_enabled, cancel_enabled, running, fw, dw >>

coordVars == << url_text, videos, status_text, progress_text, fetch_thread,
                download_thread, cancel_download, fetch_enabled,
                download_enabled, cancel_enabled, running >>

-----------------------------------------------------------------------------
(* Bounds of the model *)

\* Thread objects the Coordinator creates in one execution, of both kinds.
MaxRuns == 2

(* Program constants *)

\* entries[:20]
PlaylistLimit == 20

\* video.title[:50]
TitleLimit == 50

\* Bound on the durations, in seconds, of SpecFormat
MaxSeconds == 7325

\* Bound on the Fetch Worker runs of SpecFetch
MaxFetchRuns == 1

FetchIds == 1..MaxRuns
DownloadIds == 1..MaxRuns

-----------------------------------------------------------------------------
(* Python helpers *)

Min(a, b) == IF a <= b THEN a ELSE b

\* d.get(k, default)
Get(d, k, default) == IF k \in DOMAIN d THEN d[k] ELSE default

\* a or b, on strings (None and "" are both falsy; a missing key reads "")
OrStr(a, b) == IF a /= "" THEN a ELSE b

\* a or b, on integers (None and 0 are both falsy; a missing key reads 0)
OrInt(a, b) == IF a /= 0 THEN a ELSE b

\* s[:n]
Prefix(s, n) == SubSeq(s, 1, Min(n, Len(s)))

\* s.strip(): leading and trailing whitespace removed (of the whitespace
\* characters only the space is printable, so only it can be typed)
RECURSIVE Strip(_)
Strip(s) ==
    IF Len(s) = 0 THEN ""
    ELSE IF SubSeq(s, 1, 1) = " " THEN Strip(SubSeq(s, 2, Len(s)))
    ELSE IF SubSeq(s, Len(s), Len(s)) = " " THEN Strip(SubSeq(s, 1, Len(s) - 1))
    ELSE s

\* f"{n:02d}"
Pad2(n) == IF n < 10 THEN "0" \o ToString(n) ELSE ToString(n)

\* c.lower() of one character
LowerChar(c) ==
    CASE c = "A" -> "a" [] c = "B" -> "b" [] c = "C" -> "c" [] c = "D" -> "d"
      [] c = "E" -> "e" [] c = "F" -> "f" [] c = "G" -> "g" [] c = "H" -> "h"
      [] c = "I" -> "i" [] c = "J" -> "j" [] c = "K" -> "k" [] c = "L" -> "l"
      [] c = "M" -> "m" [] c = "N" -> "n" [] c = "O" -> "o" [] c = "P" -> "p"
      [] c = "Q" -> "q" [] c = "R" -> "r" [] c = "S" -> "s" [] c = "T" -> "t"
      [] c = "U" -> "u" [] c = "V" -> "v" [] c = "W" -> "w" [] c = "X" -> "x"
      [] c = "Y" -> "y" [] c = "Z" -> "z" [] OTHER -> c

\* s.lower()
RECURSIVE Lower(_)
Lower(s) ==
    IF Len(s) = 0 THEN ""
    ELSE LowerChar(SubSeq(s, 1, 1)) \o Lower(SubSeq(s, 2, Len(s)))

\* p in s
Contains(s, p) ==
    \E i \in 1..(Len(s) - Len(p) + 1) : SubSeq(s, i, i + Len(p) - 1) = p

\* Variant of _format_duration: the seconds are not padded to two digits
_format_duration_NoPad(seconds) ==
    IF seconds = 0 THEN "0:00"
    ELSE LET hours == seconds \div 3600
             minutes == (seconds % 3600) \div 60
             secs == seconds % 60
         IN  IF hours /= 0
             THEN ToString(hours) \o ":" \o Pad2(minutes) \o ":" \o ToString(secs)
             ELSE ToString(minutes) \o ":" \o ToString(secs)

\* _format_duration
_format_duration(seconds) ==
    IF seconds = 0 THEN "0:00"
    ELSE LET hours == seconds \div 3600
             minutes == (seconds % 3600) \div 60
             secs == seconds % 60
         IN  IF hours /= 0
             THEN ToString(hours) \o ":" \o Pad2(minutes) \o ":" \o Pad2(secs)
             ELSE ToString(minutes) \o ":" \o Pad2(secs)

\* VideoInfo(id, title, duration, uploader, url, thumbnail), selected = False
VideoInfo(id, title, duration, uploader, url, thumbnail) ==
    [id |-> id, title |-> title, duration |-> duration, uploader |-> uploader,
     url |-> url, thumbnail |-> thumbnail, selected |-> FALSE]

\* Messages put on the queue: ("status", text), ("progress", text), ("videos", list)
StatusMsg(text) == [type |-> "status", text |-> text, list |-> 0]
ProgressMsg(text) == [type |-> "progress", text |-> text, list |-> 0]
VideosMsg(obj) == [type |-> "videos", text |-> "", list |-> obj]

-----------------------------------------------------------------------------
(* The extraction service and the download service (yt_dlp), as the worker *)
(* sees them: a call returns a value or raises.                            *)

\* A null entry of info['entries'], and the value of a variable not yet bound
None == [none |-> TRUE]

Returned(info) == [raised |-> FALSE, info |-> info, err |-> ""]
Raised(err) == [raised |-> TRUE, info |-> None, err |-> err]

UrlSingle == "https://yt/watch?v=a1"
UrlPlaylist == "https://yt/playlist?list=PL1"
UrlMixed == "https://yt/playlist?list=MIX"
UrlBad == "https://yt/watch?v=bad"
UrlBroken == "https://yt/watch?v=broken"
UrlLong == "https://yt/playlist?list=LONG"
UrlHoles == "https://yt/playlist?list=HOLES"

UrlTwice == "https://yt/playlist?list=TWICE"
UrlEmpty == "https://yt/playlist?list=EMPTY"
UrlNulls == "https://yt/playlist?list=NULLS"

\* A text of the input field made of spaces only
TextBlank == "  "

\* Texts of the exceptions yt_dlp raises
ErrTexts ==
    { "Read Timeout on socket", "Video unavailable: private",
      "HTTP Error 404: Not Found", "Unsupported URL" }

\* Entries of UrlPlaylist: two full entries around a null entry
ShortEntries ==
    << [id |-> "b1", title |-> "Beta 1", duration |-> 65, uploader |-> "Chan B",
        url |-> "https://yt/watch?v=b1"],
       None,
       [id |-> "b2", title |-> "Beta 2", duration |-> 3725, uploader |-> "Chan B",
        url |-> "https://yt/watch?v=b2"] >>

\* Entries of UrlMixed: a full entry, a null entry, an entry with neither
\* uploader nor url, an entry with only an id and a webpage_url
MixedEntries ==
    << [id |-> "m1", title |-> "Mix 1", duration |-> 65, uploader |-> "Chan M",
        url |-> "https://yt/watch?v=m1", thumbnail |-> "https://yt/m1.jpg"],
       None,
       [id |-> "m2", title |-> "Mix 2", duration |-> 3725],
       [id |-> "m3", webpage_url |-> "https://yt/watch?v=m3"] >>

\* Entry k of the long collections
LongEntry(k) ==
    [id |-> "L" \o ToString(k), title |-> "Long " \o ToString(k),
     duration |-> 60 + k, uploader |-> "Chan L",
     url |-> "https://yt/watch?v=L" \o ToString(k)]

\* 22 entries, the third is null: 21 non-null entries
LongEntries == [k \in 1..22 |-> IF k = 3 THEN None ELSE LongEntry(k)]

\* 22 entries, three of them null: 19 non-null entries
HolesEntries == [k \in 1..22 |-> IF k \in {4, 5, 21} THEN None ELSE LongEntry(k)]

\* Entries of UrlTwice: a playlist that lists the video t1 twice
TwiceEntries ==
    << [id |-> "t1", title |-> "Twice 1", duration |-> 65, uploader |-> "Chan T",
        url |-> "https://yt/watch?v=t1"],
       [id |-> "t2", title |-> "Twice 2", duration |-> 70, uploader |-> "Chan T",
        url |-> "https://yt/watch?v=t2"],
       [id |-> "t1", title |-> "Twice 1", duration |-> 65, uploader |-> "Chan T",
        url |-> "https://yt/watch?v=t1"] >>

\* Entries of UrlNulls: a playlist whose two items are both unavailable
NullsEntries == << None, None >>

\* yt_dlp.YoutubeDL(ydl_opts_basic): the object is built, or building it raises
MakeYoutubeDL(url) ==
    CASE url = UrlPlaylist -> { Returned(None), Raised("Read Timeout on socket") }
      [] url = UrlBroken -> { Raised(e) : e \in ErrTexts }
      [] OTHER -> { Returned(None) }

\* ydl.extract_info(url, download=False) with extract_flat: True
ExtractFlat(url) ==
    CASE url = UrlSingle ->
           { Returned([id |-> "a1", title |-> "Alpha (flat)", duration |-> 59,
                       uploader |-> "Chan A"]) }
      [] url = UrlPlaylist ->
           { Returned([id |-> "PL1", title |-> "List 1", entries |-> ShortEntries]),
             Raised("Video unavailable: private") }
      [] url = UrlMixed ->
           { Returned([id |-> "MIX", title |-> "Mix", entries |-> MixedEntries]) }
      [] url = UrlLong ->
           { Returned([id |-> "LONG", title |-> "Long list", entries |-> LongEntries]) }
      [] url = UrlHoles ->
           { Returned([id |-> "HOLES", title |-> "List with holes",
                       entries |-> HolesEntries]) }
      [] url = UrlTwice ->
           { Returned([id |-> "TWICE", title |-> "List twice",
                       entries |-> TwiceEntries]) }
      [] url = UrlEmpty ->
           { Returned([id |-> "EMPTY", title |-> "Empty list", entries |-> << >>]) }
      [] url = UrlNulls ->
           { Returned([id |-> "NULLS", title |-> "Unavailable list",
                       entries |-> NullsEntries]) }
      [] OTHER -> { Raised(e) : e \in ErrTexts }

\* ydl.extract_info(video_url, download=False) with extract_flat: False
ExtractDetailed(url) ==
    CASE url = UrlSingle ->
           { Returned([id |-> "a1", title |-> "Alpha", duration |-> 3725,
                       uploader |-> "Channel A",
                       thumbnail |-> "https://yt/a1.jpg"]),
             Raised("Read Timeout on socket") }
      [] url \in {"https://yt/watch?v=b1", "https://yt/watch?v=b2"} ->
           { Returned([id |-> "b"]), Raised("Read Timeout on socket") }
      [] url = "https://yt/watch?v=m1" ->
           { Returned([id |-> "m1", title |-> "Mix One", duration |-> 70,
                       uploader |-> "Channel M"]),
             Raised("Read Timeout on socket") }
      [] url = "https://www.youtube.com/watch?v=m2" ->
           { Returned([id |-> "m2", duration |-> 3600, channel |-> "M channel"]),
             Raised("Video unavailable: private") }
      [] url = "https://yt/watch?v=m3" ->
           { Returned([id |-> "m3"]), Raised("HTTP Error 404: Not Found") }
      [] url = "https://yt/watch?v=L1" ->
           { Returned([id |-> "L1", title |-> "Long One", duration |-> 3600,
                       uploader |-> "Channel L"]),
             Raised("Read Timeout on socket") }
      [] url = "https://yt/watch?v=L7" -> { Raised("Video unavailable: private") }
      [] url = UrlEmpty ->
           { Returned([id |-> "EMPTY", title |-> "Empty list"]),
             Raised("Read Timeout on socket") }
      [] url \in {"https://yt/watch?v=t1", "https://yt/watch?v=t2"} ->
           { Returned([id |-> "t"]), Raised("Read Timeout on socket") }
      [] OTHER -> { Returned([id |-> "L"]) }

\* ydl.download([video.url])
Download(url) == { Returned(None), Raised("Read Timeout on socket") }

-----------------------------------------------------------------------------
(* State after YouTubeDownloader.__init__ *)

\* A fetch Thread object not yet created.  pc is the position in
\* fetch_video_info; url, info, entries, i, exc are its locals.  The other
\* fields are a record of the run: posted is every message it has put, pending
\* says an external call raised and no status has been put since, basic_failed
\* says the raise came from the shallow extract_info.
FetchUnborn ==
    [pc |-> "unborn", url |-> "", info |-> None, entries |-> << >>, i |-> 0,
     exc |-> "", posted |-> << >>, pending |-> FALSE, basic_failed |-> FALSE]

\* A download Thread object not yet created.  pc is the position in
\* download_videos; videos, selected_videos, i, exc are its locals.  The other
\* fields are a record of the run: posted and pending as above, downloads is
\* the ids handed to ydl.download that returned, cancelled_at is the number of
\* the item whose check saw the flag set (0: none), flag_was_set says, until
\* the thread's first step, that the click that started it found the flag set,
\* selected_at_click is, until that step, the selection that click found.
DownloadUnborn ==
    [pc |-> "unborn", videos |-> 0, selected_videos |-> << >>, i |-> 0,
     exc |-> "", posted |-> << >>, pending |-> FALSE, downloads |-> << >>,
     cancelled_at |-> 0, flag_was_set |-> FALSE, selected_at_click |-> << >>]

Init ==
    /\ url_text = ""
    /\ videos = 0
    /\ heap = [o \in 0..MaxRuns |-> << >>]
    /\ status_text = "Ready"
    /\ progress_text = ""
    /\ fetch_thread = 0
    /\ download_thread = 0
    /\ cancel_download = FALSE
    /\ message_queue = << >>
    /\ fetch_enabled = TRUE
    /\ download_enabled = TRUE
    /\ cancel_enabled = TRUE
    /\ running = TRUE
    /\ fw = [t \in FetchIds |-> FetchUnborn]
    /\ dw = [t \in DownloadIds |-> DownloadUnborn]

\* thread.is_alive(): started and its target has not returned
FetchIsAlive(t) == fw[t].pc \notin {"unborn", "done"}
DownloadIsAlive(t) == dw[t].pc \notin {"unborn", "done"}

\* self.fetch_thread and self.fetch_thread.is_alive()
FetchThreadAlive == fetch_thread /= 0 /\ FetchIsAlive(fetch_thread)

\* self.download_thread and self.download_thread.is_alive()
DownloadThreadAlive == download_thread /= 0 /\ DownloadIsAlive(download_thread)

-----------------------------------------------------------------------------
(* fetch_video_info: one action per queue put or external call *)

\* self.message_queue.put(m) by fetch thread t, whose locals become f
FetchPut(t, m, f) ==
    /\ message_queue' = Append(message_queue, m)
    /\ fw' = [fw EXCEPT ![t] = [f EXCEPT !.posted = Append(fw[t].posted, m),
                                         !.pending = IF m.type = "status" THEN FALSE
                                                     ELSE fw[t].pending]]

\* The error classification of the outer handler
Classify(error_msg) ==
    IF Contains(Lower(error_msg), "timeout")
    THEN "Error: Request timed out. Check your internet connection."
    ELSE IF Contains(Lower(error_msg), "unavailable")
    THEN "Error: Video is unavailable or private"
    ELSE IF Contains(Lower(error_msg), "not found")
    THEN "Error: Video or playlist not found"
    ELSE "Error: " \o error_msg

\* Variant of CapEntries: the slice is taken before the null entries are dropped
CapEntries_SliceFirst(es) ==
    SelectSeq(Prefix(es, PlaylistLimit), LAMBDA e : e /= None)

\* [e for e in info['entries'] if e is not None][:20]
CapEntries(es) == Prefix(SelectSeq(es, LAMBDA e : e /= None), PlaylistLimit)

\* 'entries' in info and info['entries']
IsPlaylist(info) == "entries" \in DOMAIN info /\ Len(info.entries) > 0

\* entry.get('id', f'unknown_{i}')
EntryId(entry, i) == Get(entry, "id", "unknown_" \o ToString(i))

\* entry.get('url') or entry.get('webpage_url') or f"https://www.youtube.com/watch?v={video_id}"
EntryUrl(entry, i) ==
    OrStr(OrStr(Get(entry, "url", ""), Get(entry, "webpage_url", "")),
          "https://www.youtube.com/watch?v=" \o EntryId(entry, i))

\* title, duration, uploader of a collection entry after its detailed extraction
EntryDetailed(entry, single_info, i) ==
    [title |-> OrStr(OrStr(Get(single_info, "title", ""), Get(entry, "title", "")),
                     "Video " \o ToString(i + 1)),
     duration |-> _format_duration(OrInt(OrInt(Get(single_info, "duration", 0),
                                               Get(entry, "duration", 0)), 0)),
     uploader |-> OrStr(OrStr(OrStr(Get(single_info, "uploader", ""),
                                    Get(single_info, "channel", "")),
                              Get(entry, "uploader", "")),
                        "Unknown Channel")]

\* Variant of EntryFallback: the defaults are used whatever the entry holds
EntryFallback_Defaults(entry, i) ==
    [title |-> "Video " \o ToString(i + 1),
     duration |-> _format_duration(0),
     uploader |-> "Unknown Channel"]

\* title, duration, uploader of a collection entry whose detailed extraction raised
EntryFallback(entry, i) ==
    [title |-> OrStr(Get(entry, "title", ""), "Video " \o ToString(i + 1)),
     duration |-> _format_duration(OrInt(Get(entry, "duration", 0), 0)),
     uploader |-> OrStr(Get(entry, "uploader", ""), "Unknown Channel")]

\* The VideoInfo appended for a collection entry
EntryVideoInfo(entry, i, fields) ==
    VideoInfo(EntryId(entry, i), fields.title, fields.duration, fields.uploader,
              EntryUrl(entry, i), Get(entry, "thumbnail", ""))

\* The VideoInfo of a single video after its detailed extraction
SingleDetailed(info, detailed_info, url) ==
    VideoInfo(Get(detailed_info, "id", Get(info, "id", "unknown")),
              OrStr(OrStr(Get(detailed_info, "title", ""), Get(info, "title", "")),
                    "Untitled Video"),
              _format_duration(OrInt(OrInt(Get(detailed_info, "duration", 0),
                                           Get(info, "duration", 0)), 0)),
              OrStr(OrStr(OrStr(Get(detailed_info, "uploader", ""),
                                Get(detailed_info, "channel", "")),
                          Get(info, "uploader", "")),
                    "Unknown Channel"),
              url,
              Get(detailed_info, "thumbnail", Get(info, "thumbnail", "")))

\* Variant of SingleFallback: the defaults are used whatever info holds
SingleFallback_Defaults(info, url) ==
    VideoInfo(Get(info, "id", "unknown"), "Untitled Video", _format_duration(0),
              "Unknown Channel", url, Get(info, "thumbnail", ""))

\* The VideoInfo of a single video whose detailed extraction raised
SingleFallback(info, url) ==
    VideoInfo(Get(info, "id", "unknown"),
              Get(info, "title", "Untitled Video"),
              _format_duration(Get(info, "duration", 0)),
              Get(info, "uploader", "Unknown Channel"),
              url,
              Get(info, "thumbnail", ""))

\* put(("status", "Fetching video information..."))
FetchStart(t) ==
    /\ fw[t].pc = "start"
    /\ FetchPut(t, StatusMsg("Fetching video information..."),
                [fw[t] EXCEPT !.pc = "extract"])
    /\ UNCHANGED << coordVars, heap, dw >>

\* with yt_dlp.YoutubeDL(ydl_opts_basic) as ydl: info = ydl.extract_info(url)
FetchExtract(t) ==
    /\ fw[t].pc = "extract"
    /\ \E c \in MakeYoutubeDL(fw[t].url) :
          IF c.raised
          THEN fw' = [fw EXCEPT ![t].pc = "outer_err", ![t].exc = c.err,
                                ![t].pending = TRUE]
          ELSE \E r \in ExtractFlat(fw[t].url) :
                  IF r.raised
                  THEN fw' = [fw EXCEPT ![t].pc = "basic_err", ![t].exc = r.err,
                                        ![t].pending = TRUE,
                                        ![t].basic_failed = TRUE]
                  ELSE fw' = [fw EXCEPT ![t].pc = "branch", ![t].info = r.info]
    /\ UNCHANGED << coordVars, heap, message_queue, dw >>

\* except Exception as e: put(("status", f"Error fetching basic info: {str(e)}")); return
FetchBasicErr(t) ==
    /\ fw[t].pc = "basic_err"
    /\ FetchPut(t, StatusMsg("Error fetching basic info: " \o fw[t].exc),
                [fw[t] EXCEPT !.pc = "done"])
    /\ UNCHANGED << coordVars, heap, dw >>

\* The outer handler: put(("status", <classified text>))
FetchOuterErr(t) ==
    /\ fw[t].pc = "outer_err"
    /\ FetchPut(t, StatusMsg(Classify(fw[t].exc)), [fw[t] EXCEPT !.pc = "done"])
    /\ UNCHANGED << coordVars, heap, dw >>

\* videos = []; the playlist test; the first put of either branch
FetchBranch(t) ==
    /\ fw[t].pc = "branch"
    /\ IF IsPlaylist(fw[t].info)
       THEN LET entries == CapEntries(fw[t].info.entries)
            IN  FetchPut(t, StatusMsg("Found playlist with " \o ToString(Len(entries))
                                      \o " videos. Getting details..."),
                         [fw[t] EXCEPT !.pc = "loop", !.entries = entries, !.i = 0])
       ELSE FetchPut(t, StatusMsg("Getting video details..."),
                     [fw[t] EXCEPT !.pc = "single"])
    /\ UNCHANGED << coordVars, heap, dw >>

\* Variant of FetchProcessing: the entries are numbered from 0
FetchProcessing_FromZero(t) ==
    /\ fw[t].pc = "loop"
    /\ fw[t].i < Len(fw[t].entries)
    /\ FetchPut(t, StatusMsg("Processing video " \o ToString(fw[t].i) \o "/"
                             \o ToString(Len(fw[t].entries)) \o "..."),
                [fw[t] EXCEPT !.pc = "detail"])
    /\ UNCHANGED << coordVars, heap, dw >>

\* for i, entry in enumerate(entries): put(("status", f"Processing video {i+1}/{len(entries)}..."))
FetchProcessing(t) ==
    /\ fw[t].pc = "loop"
    /\ fw[t].i < Len(fw[t].entries)
    /\ FetchPut(t, StatusMsg("Processing video " \o ToString(fw[t].i + 1) \o "/"
                             \o ToString(Len(fw[t].entries)) \o "..."),
                [fw[t] EXCEPT !.pc = "detail"])
    /\ UNCHANGED << coordVars, heap, dw >>

\* The detailed extraction of entry i, its fallback, videos.append(video_info)
FetchDetail(t) ==
    /\ fw[t].pc = "detail"
    /\ LET i == fw[t].i
           entry == fw[t].entries[i + 1]
       IN  \E r \in ExtractDetailed(EntryUrl(entry, i)) :
              LET fields == IF r.raised THEN EntryFallback(entry, i)
                            ELSE EntryDetailed(entry, r.info, i)
              IN  /\ heap' = [heap EXCEPT ![t] = Append(heap[t],
                                                 EntryVideoInfo(entry, i, fields))]
                  /\ fw' = [fw EXCEPT ![t].pc = "loop", ![t].i = i + 1,
                                      ![t].pending = r.raised]
    /\ UNCHANGED << coordVars, message_queue, dw >>

\* The detailed extraction of a single video, its fallback, videos.append(video_info)
FetchSingle(t) ==
    /\ fw[t].pc = "single"
    /\ \E r \in ExtractDetailed(fw[t].url) :
          /\ heap' = [heap EXCEPT ![t] =
                        Append(heap[t],
                               IF r.raised THEN SingleFallback(fw[t].info, fw[t].url)
                               ELSE SingleDetailed(fw[t].info, r.info, fw[t].url))]
          /\ fw' = [fw EXCEPT ![t].pc = "post_result", ![t].pending = r.raised]
    /\ UNCHANGED << coordVars, message_queue, dw >>

\* Variant of FetchPostResult: the list is posted from inside the loop
FetchPostResult_InLoop(t) ==
    /\ \/ fw[t].pc = "post_result"
       \/ fw[t].pc = "loop"
    /\ FetchPut(t, VideosMsg(t), [fw[t] EXCEPT !.pc = "post_status"])
    /\ UNCHANGED << coordVars, heap, dw >>

\* put(("videos", videos))
FetchPostResult(t) ==
    /\ \/ fw[t].pc = "post_result"
       \/ fw[t].pc = "loop" /\ fw[t].i = Len(fw[t].entries)
    /\ FetchPut(t, VideosMsg(t), [fw[t] EXCEPT !.pc = "post_status"])
    /\ UNCHANGED << coordVars, heap, dw >>

\* put(("status", f"Successfully loaded {len(videos)} video(s)"))
FetchPostStatus(t) ==
    /\ fw[t].pc = "post_status"
    /\ FetchPut(t, StatusMsg("Successfully loaded " \o ToString(Len(heap[t]))
                             \o " video(s)"),
                [fw[t] EXCEPT !.pc = "done"])
    /\ UNCHANGED << coordVars, heap, dw >>

FetchWorker(t) ==
    \/ FetchStart(t)
    \/ FetchExtract(t)
    \/ FetchBasicErr(t)
    \/ FetchOuterErr(t)
    \/ FetchBranch(t)
    \/ FetchProcessing(t)
    \/ FetchDetail(t)
    \/ FetchSingle(t)
    \/ FetchPostResult(t)
    \/ FetchPostStatus(t)

-----------------------------------------------------------------------------
(* download_videos: one action per queue put or external call *)

\* self.message_queue.put(m) by download thread t, whose locals become d
DownloadPut(t, m, d) ==
    /\ message_queue' = Append(message_queue, m)
    /\ dw' = [dw EXCEPT ![t] = [d EXCEPT !.posted = Append(dw[t].posted, m),
                                         !.pending = IF m.type = "status" THEN FALSE
                                                     ELSE dw[t].pending]]

\* [v for v in videos if v.selected]
SelectedOf(list) == SelectSeq(list, LAMBDA v : v.selected)

\* Variant of ProgressText: the items are numbered from 0
ProgressText_FromZero(i, total_videos, video) ==
    "Downloading " \o ToString(i) \o "/" \o ToString(total_videos) \o ": "
        \o Prefix(video.title, TitleLimit) \o "..."

\* f"Downloading {i+1}/{total_videos}: {video.title[:50]}..."
ProgressText(i, total_videos, video) ==
    "Downloading " \o ToString(i + 1) \o "/" \o ToString(total_videos) \o ": "
        \o Prefix(video.title, TitleLimit) \o "..."

\* Variant of DownloadStart: the return after "No videos selected" is left out
DownloadStart_NoReturn(t) ==
    /\ dw[t].pc = "start"
    /\ LET selected_videos == SelectedOf(heap[dw[t].videos])
       IN  IF selected_videos = << >>
           THEN DownloadPut(t, StatusMsg("No videos selected"),
                            [dw[t] EXCEPT !.pc = "check", !.flag_was_set = FALSE,
                                          !.selected_at_click = << >>])
           ELSE DownloadPut(t, StatusMsg("Downloading "
                                         \o ToString(Len(selected_videos))
                                         \o " video(s)..."),
                            [dw[t] EXCEPT !.pc = "check",
                                          !.selected_videos = selected_videos,
                                          !.i = 0, !.flag_was_set = FALSE,
                                          !.selected_at_click = << >>])
    /\ UNCHANGED << coordVars, heap, fw >>

\* selected_videos = [...]; "No videos selected" and return, or "Downloading N video(s)..."
DownloadStart(t) ==
    /\ dw[t].pc = "start"
    /\ LET selected_videos == SelectedOf(heap[dw[t].videos])
       IN  IF selected_videos = << >>
           THEN DownloadPut(t, StatusMsg("No videos selected"),
                            [dw[t] EXCEPT !.pc = "done", !.flag_was_set = FALSE,
                                          !.selected_at_click = << >>])
           ELSE DownloadPut(t, StatusMsg("Downloading "
                                         \o ToString(Len(selected_videos))
                                         \o " video(s)..."),
                            [dw[t] EXCEPT !.pc = "check",
                                          !.selected_videos = selected_videos,
                                          !.i = 0, !.flag_was_set = FALSE,
                                          !.selected_at_click = << >>])
    /\ UNCHANGED << coordVars, heap, fw >>

\* Variant of DownloadCheck: with the flag set the worker waits for it to be
\* cleared instead of returning
DownloadCheck_WaitsForClear(t) ==
    /\ dw[t].pc = "check"
    /\ dw[t].i < Len(dw[t].selected_videos)
    /\ ~cancel_download
    /\ DownloadPut(t, ProgressMsg(ProgressText(dw[t].i,
                                               Len(dw[t].selected_videos),
                                               dw[t].selected_videos[dw[t].i + 1])),
                   [dw[t] EXCEPT !.pc = "download"])
    /\ UNCHANGED << coordVars, heap, fw >>

\* Variant of DownloadCheck: "Download cancelled" is posted but the loop goes on
DownloadCheck_NoReturn(t) ==
    /\ dw[t].pc = "check"
    /\ dw[t].i < Len(dw[t].selected_videos)
    /\ IF cancel_download
       THEN DownloadPut(t, StatusMsg("Download cancelled"),
                        [dw[t] EXCEPT !.pc = "download", !.cancelled_at = dw[t].i + 1])
       ELSE DownloadPut(t, ProgressMsg(ProgressText(dw[t].i,
                                                    Len(dw[t].selected_videos),
                                                    dw[t].selected_videos[dw[t].i + 1])),
                        [dw[t] EXCEPT !.pc = "download"])
    /\ UNCHANGED << coordVars, heap, fw >>

\* Top of the loop body: the cancellation check, then the progress put
DownloadCheck(t) ==
    /\ dw[t].pc = "check"
    /\ dw[t].i < Len(dw[t].selected_videos)
    /\ IF cancel_download
       THEN DownloadPut(t, StatusMsg("Download cancelled"),
                        [dw[t] EXCEPT !.pc = "done", !.cancelled_at = dw[t].i + 1])
       ELSE DownloadPut(t, ProgressMsg(ProgressText(dw[t].i,
                                                    Len(dw[t].selected_videos),
                                                    dw[t].selected_videos[dw[t].i + 1])),
                        [dw[t] EXCEPT !.pc = "download"])
    /\ UNCHANGED << coordVars, heap, fw >>

\* Variant of DownloadItem: the loop index advances by two
DownloadItem_Skip(t) ==
    /\ dw[t].pc = "download"
    /\ LET video == dw[t].selected_videos[dw[t].i + 1]
       IN  \E r \in Download(video.url) :
              IF r.raised
              THEN dw' = [dw EXCEPT ![t].pc = "error", ![t].exc = r.err,
                                    ![t].pending = TRUE]
              ELSE dw' = [dw EXCEPT ![t].pc = "check",
                                    ![t].i = Min(dw[t].i + 2,
                                                 Len(dw[t].selected_videos)),
                                    ![t].downloads = Append(dw[t].downloads, video.id)]
    /\ UNCHANGED << coordVars, heap, message_queue, fw >>

\* Variant of DownloadItem: a flag set during the download interrupts it, and
\* the run ends as cancelled
DownloadItem_Interrupted(t) ==
    /\ dw[t].pc = "download"
    /\ IF cancel_download
       THEN DownloadPut(t, StatusMsg("Download cancelled"),
                        [dw[t] EXCEPT !.pc = "done", !.cancelled_at = dw[t].i + 1])
       ELSE /\ LET video == dw[t].selected_videos[dw[t].i + 1]
               IN  \E r \in Download(video.url) :
                      IF r.raised
                      THEN dw' = [dw EXCEPT ![t].pc = "error", ![t].exc = r.err,
                                            ![t].pending = TRUE]
                      ELSE dw' = [dw EXCEPT ![t].pc = "check", ![t].i = dw[t].i + 1,
                                            ![t].downloads =
                                                Append(dw[t].downloads, video.id)]
            /\ UNCHANGED message_queue
    /\ UNCHANGED << coordVars, heap, fw >>

\* with yt_dlp.YoutubeDL(ydl_opts) as ydl: ydl.download([video.url])
DownloadItem(t) ==
    /\ dw[t].pc = "download"
    /\ LET video == dw[t].selected_videos[dw[t].i + 1]
       IN  \E r \in Download(video.url) :
              IF r.raised
              THEN dw' = [dw EXCEPT ![t].pc = "error", ![t].exc = r.err,
                                    ![t].pending = TRUE]
              ELSE dw' = [dw EXCEPT ![t].pc = "check", ![t].i = dw[t].i + 1,
                                    ![t].downloads = Append(dw[t].downloads, video.id)]
    /\ UNCHANGED << coordVars, heap, message_queue, fw >>

\* After the loop: put(("status", f"Successfully downloaded {total_videos} video(s)"))
DownloadFinish(t) ==
    /\ dw[t].pc = "check"
    /\ dw[t].i = Len(dw[t].selected_videos)
    /\ DownloadPut(t, StatusMsg("Successfully downloaded "
                                \o ToString(Len(dw[t].selected_videos))
                                \o " video(s)"),
                   [dw[t] EXCEPT !.pc = "clear"])
    /\ UNCHANGED << coordVars, heap, fw >>

\* Variant of DownloadError: the failure is reported and the loop goes on
\* with the next item
DownloadError_Continue(t) ==
    /\ dw[t].pc = "error"
    /\ DownloadPut(t, StatusMsg("Download error: " \o dw[t].exc),
                   [dw[t] EXCEPT !.pc = "check", !.i = dw[t].i + 1])
    /\ UNCHANGED << coordVars, heap, fw >>

\* Variant of DownloadError: the handler posts no status
DownloadError_NoStatus(t) ==
    /\ dw[t].pc = "error"
    /\ dw' = [dw EXCEPT ![t].pc = "clear"]
    /\ UNCHANGED << coordVars, heap, message_queue, fw >>

\* except Exception as e: put(("status", f"Download error: {str(e)}"))
DownloadError(t) ==
    /\ dw[t].pc = "error"
    /\ DownloadPut(t, StatusMsg("Download error: " \o dw[t].exc),
                   [dw[t] EXCEPT !.pc = "clear"])
    /\ UNCHANGED << coordVars, heap, fw >>

\* Variant of DownloadClear: the worker clears the progress text itself
DownloadClear_WritesText(t) ==
    /\ dw[t].pc = "clear"
    /\ progress_text' = ""
    /\ dw' = [dw EXCEPT ![t].pc = "done"]
    /\ UNCHANGED << url_text, videos, status_text, fetch_thread, download_thread,
                    cancel_download, fetch_enabled, download_enabled,
                    cancel_enabled, running, heap, message_queue, fw >>

\* put(("progress", "")), on completion and in the handler
DownloadClear(t) ==
    /\ dw[t].pc = "clear"
    /\ DownloadPut(t, ProgressMsg(""), [dw[t] EXCEPT !.pc = "done"])
    /\ UNCHANGED << coordVars, heap, fw >>

DownloadWorker(t) ==
    \/ DownloadStart(t)
    \/ DownloadCheck(t)
    \/ DownloadItem(t)
    \/ DownloadFinish(t)
    \/ DownloadError(t)
    \/ DownloadClear(t)

-----------------------------------------------------------------------------
(* The Coordinator: run() is handle_events(); update(dt); draw() while running. *)
(* handle_events is one action per event; update is one action.              *)

workerVars == << heap, message_queue, fw, dw >>

\* url_input.handle_event: the text is edited to one of the texts of U
TypeUrl(U) ==
    /\ running
    /\ \E u \in U : u /= url_text /\ url_text' = u
    /\ UNCHANGED << videos, status_text, progress_text, fetch_thread,
                    download_thread, cancel_download, fetch_enabled,
                    download_enabled, cancel_enabled, running, workerVars >>

\* Variant of FetchAccepted: the liveness test of the fetch thread is left out
FetchAccepted_NoAliveTest == Strip(url_text) /= ""

\* The fetch click starts a thread: the text is non-empty and no fetch thread is alive
FetchAccepted == Strip(url_text) /= "" /\ ~FetchThreadAlive

\* Variant of ClickFetch: a click refused because a fetch thread is alive is
\* reported by a status message
ClickFetch_ReportsBusy ==
    /\ running
    /\ fetch_enabled
    /\ fetch_thread + download_thread < MaxRuns
    /\ IF FetchAccepted
       THEN /\ fetch_thread' = fetch_thread + 1
            /\ fw' = [t \in FetchIds |->
                        IF t = fetch_thread + 1
                        THEN [FetchUnborn EXCEPT !.pc = "start", !.url = Strip(url_text)]
                        ELSE IF FetchIsAlive(t) THEN fw[t] ELSE FetchUnborn]
            /\ UNCHANGED message_queue
       ELSE /\ message_queue' = IF Strip(url_text) /= ""
                                THEN Append(message_queue,
                                            StatusMsg("Fetch already in progress"))
                                ELSE message_queue
            /\ UNCHANGED << fetch_thread, fw >>
    /\ UNCHANGED << url_text, videos, status_text, progress_text,
                    download_thread, cancel_download, fetch_enabled,
                    download_enabled, cancel_enabled, running,
                    heap, dw >>

\* A click on the Fetch button
ClickFetch ==
    /\ running
    /\ fetch_enabled
    /\ fetch_thread + download_thread < MaxRuns
    /\ IF FetchAccepted
       THEN /\ fetch_thread' = fetch_thread + 1
            /\ fw' = [t \in FetchIds |->
                        IF t = fetch_thread + 1
                        THEN [FetchUnborn EXCEPT !.pc = "start", !.url = Strip(url_text)]
                        ELSE IF FetchIsAlive(t) THEN fw[t] ELSE FetchUnborn]
       ELSE UNCHANGED << fetch_thread, fw >>
    /\ UNCHANGED << url_text, videos, status_text, progress_text,
                    download_thread, cancel_download, fetch_enabled,
                    download_enabled, cancel_enabled, running,
                    heap, message_queue, dw >>

\* Variant of DownloadAccepted: the test of the list is left out
DownloadAccepted_NoListTest == ~DownloadThreadAlive

\* The download click starts a thread: the list is non-empty and no download thread is alive
DownloadAccepted == heap[videos] /= << >> /\ ~DownloadThreadAlive

\* Variant of ClickDownload: the flag is cleared before the test, not inside it
ClickDownload_ClearFirst ==
    /\ running
    /\ download_enabled
    /\ fetch_thread + download_thread < MaxRuns
    /\ cancel_download' = FALSE
    /\ IF DownloadAccepted
       THEN /\ download_thread' = download_thread + 1
            /\ dw' = [t \in DownloadIds |->
                        IF t = download_thread + 1
                        THEN [DownloadUnborn EXCEPT
                                !.pc = "start", !.videos = videos,
                                !.flag_was_set = cancel_download,
                                !.selected_at_click = SelectedOf(heap[videos])]
                        ELSE IF DownloadIsAlive(t) THEN dw[t] ELSE DownloadUnborn]
       ELSE UNCHANGED << download_thread, dw >>
    /\ UNCHANGED << url_text, videos, status_text, progress_text, fetch_thread,
                    fetch_enabled, download_enabled, cancel_enabled, running,
                    heap, message_queue, fw >>

\* A click on the Download button
ClickDownload ==
    /\ running
    /\ download_enabled
    /\ fetch_thread + download_thread < MaxRuns
    /\ IF DownloadAccepted
       THEN /\ cancel_download' = FALSE
            /\ download_thread' = download_thread + 1
            /\ dw' = [t \in DownloadIds |->
                        IF t = download_thread + 1
                        THEN [DownloadUnborn EXCEPT
                                !.pc = "start", !.videos = videos,
                                !.flag_was_set = cancel_download,
                                !.selected_at_click = SelectedOf(heap[videos])]
                        ELSE IF DownloadIsAlive(t) THEN dw[t] ELSE DownloadUnborn]
       ELSE UNCHANGED << cancel_download, download_thread, dw >>
    /\ UNCHANGED << url_text, videos, status_text, progress_text, fetch_thread,
                    fetch_enabled, download_enabled, cancel_enabled, running,
                    heap, message_queue, fw >>

\* A click on the Cancel button
\* Variant of ClickCancel: the click is taken although the button is disabled
ClickCancel_WhenDisabled ==
    /\ running
    /\ cancel_download' = TRUE
    /\ UNCHANGED << url_text, videos, status_text, progress_text, fetch_thread,
                    download_thread, fetch_enabled, download_enabled,
                    cancel_enabled, running, workerVars >>

ClickCancel ==
    /\ running
    /\ cancel_enabled
    /\ cancel_download' = TRUE
    /\ UNCHANGED << url_text, videos, status_text, progress_text, fetch_thread,
                    download_thread, fetch_enabled, download_enabled,
                    cancel_enabled, running, workerVars >>

\* A click on item i of the list: self.videos[i].selected is negated
ClickItem ==
    /\ running
    /\ \E i \in 1..Len(heap[videos]) :
          heap' = [heap EXCEPT ![videos][i].selected = ~heap[videos][i].selected]
    /\ UNCHANGED << coordVars, message_queue, fw, dw >>

\* Variant of ApplyAll: a Result is dropped once the Coordinator has a list
RECURSIVE ApplyAll_KeepsList(_, _)
ApplyAll_KeepsList(q, st) ==
    IF q = << >> THEN st
    ELSE LET m == Head(q)
         IN  ApplyAll_KeepsList(Tail(q),
                      [status_text |-> IF m.type = "status" THEN m.text
                                       ELSE st.status_text,
                       progress_text |-> IF m.type = "progress" THEN m.text
                                         ELSE st.progress_text,
                       videos |-> IF m.type = "videos" /\ st.videos = 0
                                  THEN m.list ELSE st.videos])

\* Variant of ApplyAll: the messages are taken from the tail of the queue
RECURSIVE ApplyAll_TailFirst(_, _)
ApplyAll_TailFirst(q, st) ==
    IF q = << >> THEN st
    ELSE LET m == q[Len(q)]
         IN  ApplyAll_TailFirst(SubSeq(q, 1, Len(q) - 1),
                      [status_text |-> IF m.type = "status" THEN m.text
                                       ELSE st.status_text,
                       progress_text |-> IF m.type = "progress" THEN m.text
                                         ELSE st.progress_text,
                       videos |-> IF m.type = "videos" THEN m.list ELSE st.videos])

\* The state after applying the messages of q, head first, to state st
RECURSIVE ApplyAll(_, _)
ApplyAll(q, st) ==
    IF q = << >> THEN st
    ELSE LET m == Head(q)
         IN  ApplyAll(Tail(q),
                      [status_text |-> IF m.type = "status" THEN m.text
                                       ELSE st.status_text,
                       progress_text |-> IF m.type = "progress" THEN m.text
                                         ELSE st.progress_text,
                       videos |-> IF m.type = "videos" THEN m.list ELSE st.videos])

\* The list objects of h that something still refers to; the others are freed
Collect(h, refs) == [o \in DOMAIN h |-> IF o \in refs THEN h[o] ELSE << >>]

\* update: get_nowait() until queue.Empty, each message applied as it is taken
\* (a put that lands during the loop is taken as if it had landed before it),
\* then the three button states
UpdateState ==
    LET st == ApplyAll(message_queue,
                       [status_text |-> status_text,
                        progress_text |-> progress_text, videos |-> videos])
    IN  /\ status_text' = st.status_text
        /\ progress_text' = st.progress_text
        /\ videos' = st.videos
        /\ message_queue' = << >>
        /\ heap' = Collect(heap, {st.videos}
                                 \cup {t \in FetchIds : FetchIsAlive(t)}
                                 \cup {dw[t].videos : t \in {u \in DownloadIds :
                                                            dw[u].pc = "start"}})
        /\ fetch_enabled' = (Strip(url_text) /= "")
        /\ download_enabled' = (heap[st.videos] /= << >> /\ ~DownloadThreadAlive)
        /\ cancel_enabled' = DownloadThreadAlive

\* Variant of Update: the queue is read with a blocking get, so that update
\* waits while the queue is empty
Update_BlockingGet ==
    /\ running
    /\ message_queue /= << >>
    /\ UpdateState
    /\ UNCHANGED << url_text, fetch_thread, download_thread, cancel_download,
                    running, fw, dw >>

\* One update(dt) of the loop
Update ==
    /\ running
    /\ UpdateState
    /\ UNCHANGED << url_text, fetch_thread, download_thread, cancel_download,
                    running, fw, dw >>

\* pygame.QUIT: running = False, then the update of that iteration and, after
\* the loop, self.cancel_download.set()
Quit ==
    /\ running
    /\ running' = FALSE
    /\ UpdateState
    /\ cancel_download' = TRUE
    /\ UNCHANGED << url_text, fetch_thread, download_thread, fw, dw >>

-----------------------------------------------------------------------------
(* Specifications *)

\* The URLs the user types in Spec: one collection, whose extraction and
\* downloads may fail.  The single-video branch and the other collections are
\* exercised under SpecFetch.
ShortUrls == {UrlPlaylist}

\* Spaces typed into the empty input field
TypeSpaces == url_text = "" /\ TypeUrl({TextBlank})

Next ==
    \/ TypeUrl(ShortUrls)
    \/ TypeSpaces
    \/ ClickFetch
    \/ ClickDownload
    \/ ClickCancel
    \/ ClickItem
    \/ Update
    \/ Quit
    \/ \E t \in FetchIds : running /\ FetchWorker(t)
    \/ \E t \in DownloadIds : running /\ DownloadWorker(t)

Spec == Init /\ [][Next]_vars

\* The URLs the user types in SpecFetch
FetchUrls == {UrlSingle, UrlMixed, UrlBad, UrlBroken, UrlLong, UrlHoles}

\* The Coordinator fetching and updating only, over every kind of URL
NextFetch ==
    \/ TypeUrl(FetchUrls)
    \/ fetch_thread < MaxFetchRuns /\ ClickFetch
    \/ Update
    \/ \E t \in FetchIds : running /\ FetchWorker(t)

SpecFetch == Init /\ [][NextFetch]_vars

\* The state after UrlPlaylist has been typed and fetched, both detailed
\* extractions having returned, and the update has taken the messages: the
\* list of two descriptors is the Coordinator's list
LoadedList ==
    LET es == CapEntries(ShortEntries)
    IN  [j \in 1..Len(es) |->
            EntryVideoInfo(es[j], j - 1, EntryDetailed(es[j], [id |-> "b"], j - 1))]

InitLoaded ==
    /\ url_text = UrlPlaylist
    /\ videos = 1
    /\ heap = [o \in 0..MaxRuns |-> IF o = 1 THEN LoadedList ELSE << >>]
    /\ status_text = "Successfully loaded 2 video(s)"
    /\ progress_text = ""
    /\ fetch_thread = 1
    /\ download_thread = 0
    /\ cancel_download = FALSE
    /\ message_queue = << >>
    /\ fetch_enabled = TRUE
    /\ download_enabled = TRUE
    /\ cancel_enabled = FALSE
    /\ running = TRUE
    /\ fw = [t \in FetchIds |->
               IF t /= 1 THEN FetchUnborn
               ELSE [FetchUnborn EXCEPT
                       !.pc = "done", !.url = UrlPlaylist,
                       !.info = [id |-> "PL1", title |-> "List 1",
                                 entries |-> ShortEntries],
                       !.entries = CapEntries(ShortEntries), !.i = 2,
                       !.posted =
                           << StatusMsg("Fetching video information..."),
                              StatusMsg("Found playlist with 2 videos. Getting details..."),
                              StatusMsg("Processing video 1/2..."),
                              StatusMsg("Processing video 2/2..."),
                              VideosMsg(1),
                              StatusMsg("Successfully loaded 2 video(s)") >>]]
    /\ dw = [t \in DownloadIds |-> DownloadUnborn]

\* The Coordinator and the Download Workers once the list is loaded
NextCancel ==
    \/ ClickDownload
    \/ ClickCancel
    \/ ClickItem
    \/ Update
    \/ Quit
    \/ \E t \in DownloadIds : running /\ DownloadWorker(t)

\* Downloading and cancelling under fair scheduling: a Download Worker that
\* can take a step takes one (its thread is scheduled and every yt_dlp call
\* returns or raises), and the loop of run goes on calling update while the
\* application runs
SpecCancel ==
    /\ InitLoaded /\ [][NextCancel]_vars
    /\ WF_vars(\E t \in DownloadIds : running /\ DownloadWorker(t))
    /\ WF_vars(Update)

\* The URLs the user types in SpecLists: a playlist that lists a video twice,
\* a playlist without items, a playlist whose items are all unavailable
ListUrls == {UrlTwice, UrlEmpty, UrlNulls}

\* The Coordinator fetching and updating only, over these playlists
NextLists ==
    \/ TypeUrl(ListUrls)
    \/ fetch_thread < MaxFetchRuns /\ ClickFetch
    \/ Update
    \/ \E t \in FetchIds : running /\ FetchWorker(t)

SpecLists == Init /\ [][NextLists]_vars

-----------------------------------------------------------------------------
(* Single-instance and cancellation properties, checked under Spec *)

\* The started threads of each kind that have not returned
AliveFetchThreads == {t \in FetchIds : FetchIsAlive(t)}
AliveDownloadThreads == {t \in DownloadIds : DownloadIsAlive(t)}

IdsOf(list, n) == [j \in 1..n |-> list[j].id]

\* C2: when the cancel flag is seen set at the check before item k, the run
\* ends there: exactly items 1..k-1 have been downloaded and none of k..N
\* is ever downloaded
C2_CancelStopsBatch ==
    \A t \in DownloadIds :
        dw[t].cancelled_at > 0 =>
            /\ dw[t].pc = "done"
            /\ dw[t].downloads = IdsOf(dw[t].selected_videos, dw[t].cancelled_at - 1)
            /\ Len(dw[t].downloads) < Len(dw[t].selected_videos)

\* A run of two selected items cancelled at the check before the second
C2_Witness ==
    \E t \in DownloadIds :
        /\ dw[t].cancelled_at = 2
        /\ Len(dw[t].selected_videos) = 2
        /\ Len(dw[t].downloads) = 1

\* C3: the cancel flag, once set, is cleared only by the step of the
\* Coordinator that starts a new Download Worker, and never while a Download
\* Worker is active
C3_FlagClearedOnlyAtStart ==
    [][(cancel_download /\ ~cancel_download') =>
            /\ AliveDownloadThreads = {}
            /\ download_thread' = download_thread + 1
            /\ dw'[download_thread'].pc = "start"]_vars

\* A Download Worker has just been started by a click that found the flag set
\* and cleared it
C3_Witness ==
    \E t \in DownloadIds :
        dw[t].pc = "start" /\ dw[t].flag_was_set /\ ~cancel_download

\* C4 as written: a download action with no item selected starts no Download
\* Worker and itself posts the one Status message "No videos selected"
C4_AsWritten ==
    [][(ClickDownload /\ SelectedOf(heap[videos]) = << >>) =>
            /\ download_thread' = download_thread
            /\ message_queue' = Append(message_queue, StatusMsg("No videos selected"))]_vars

\* C4: a download action on a non-empty list with no item selected, no
\* Download Worker being active, posts nothing and starts a Download Worker;
\* a Download Worker whose filter keeps no item posts the one Status message
\* "No videos selected", nothing else, and downloads nothing
C4_NoSelection ==
    /\ [][(ClickDownload /\ heap[videos] /= << >> /\ SelectedOf(heap[videos]) = << >>
              /\ ~DownloadThreadAlive) =>
                /\ download_thread' = download_thread + 1
                /\ dw'[download_thread'].pc = "start"
                /\ message_queue' = message_queue]_vars
    /\ [](\A t \in DownloadIds :
            (dw[t].pc \notin {"unborn", "start"} /\ dw[t].selected_videos = << >>) =>
                /\ dw[t].pc = "done"
                /\ dw[t].posted = << StatusMsg("No videos selected") >>
                /\ dw[t].downloads = << >>)

\* A Download Worker that has ended after finding nothing selected
C4_Witness ==
    \E t \in DownloadIds :
        /\ dw[t].pc = "done"
        /\ dw[t].selected_videos = << >>
        /\ dw[t].posted = << StatusMsg("No videos selected") >>

-----------------------------------------------------------------------------
(* Properties of a Fetch Worker run, checked under SpecFetch *)

\* The entries of the shallow result that are not null, in order
NonNull(es) == SelectSeq(es, LAMBDA e : e /= None)

\* The fetch threads that took the collection branch and have posted their list
PlaylistPosted == {t \in FetchIds : fw[t].pc = "post_status" /\ IsPlaylist(fw[t].info)}

\* list is made of the first n entries of es, one descriptor each, in order
MatchesFirst(list, es, n) ==
    /\ Len(list) = n
    /\ \A j \in 1..n : list[j].id = es[j].id

EntryJustFailed == {t \in FetchIds : fw[t].pc = "loop" /\ fw[t].pending}

\* v holds the shallow title, duration and uploader of entry number n (from 1),
\* or the placeholder of a field the shallow pass did not give
ShallowValues(v, entry, n) ==
    /\ v.title = IF "title" \in DOMAIN entry THEN entry.title
                 ELSE "Video " \o ToString(n)
    /\ v.duration = IF "duration" \in DOMAIN entry THEN _format_duration(entry.duration)
                    ELSE "0:00"
    /\ v.uploader = IF "uploader" \in DOMAIN entry THEN entry.uploader
                    ELSE "Unknown Channel"

\* C6: the descriptor of a collection entry whose detailed resolution failed
\* holds the shallow title, duration and uploader of that entry, the loop goes
\* on, and every run over a collection that ends has posted a Result
C6_EntryFallback ==
    /\ \A t \in EntryJustFailed :
            /\ Len(heap[t]) = fw[t].i
            /\ ShallowValues(heap[t][fw[t].i], fw[t].entries[fw[t].i], fw[t].i)
    /\ \A t \in FetchIds :
            (fw[t].pc = "done" /\ fw[t].entries /= << >>) =>
                \E j \in 1..Len(fw[t].posted) : fw[t].posted[j] = VideosMsg(t)

\* The detailed extraction of the third entry of a collection has just failed,
\* an entry whose shallow pass gave a title and a duration but no uploader
C6_Witness ==
    \E t \in EntryJustFailed :
        /\ fw[t].i = 2
        /\ "uploader" \notin DOMAIN fw[t].entries[2]
        /\ heap[t][2].title = fw[t].entries[2].title

\* The fetch threads on the single-video branch whose detailed extraction raised
SingleFailed ==
    {t \in FetchIds : /\ fw[t].pc \in {"post_result", "post_status"}
                      /\ fw[t].info /= None /\ ~IsPlaylist(fw[t].info)
                      /\ fw[t].pending}

\* C7: a single video whose detailed resolution raised gives a list of exactly
\* one descriptor holding the shallow title, duration and uploader, and that
\* list is posted as a Result
C7_SingleFallback ==
    \A t \in SingleFailed :
        /\ Len(heap[t]) = 1
        /\ heap[t][1].title = fw[t].info.title
        /\ heap[t][1].duration = _format_duration(fw[t].info.duration)
        /\ heap[t][1].uploader = fw[t].info.uploader
        /\ fw[t].pc = "post_status" => fw[t].posted[Len(fw[t].posted)] = VideosMsg(t)

\* The Result of a single video whose detailed extraction raised has been posted
C7_Witness ==
    \E t \in SingleFailed :
        fw[t].pc = "post_status" /\ fw[t].posted[Len(fw[t].posted)] = VideosMsg(t)

\* The fetch threads that have ended after their shallow extraction raised
BasicFailed == {t \in FetchIds : fw[t].pc = "done" /\ fw[t].basic_failed}

\* C8: after a failure of the shallow resolution the run posts one Status
\* message, whose text is the classification of the failure text, and no Result
C8_ClassifiedStatus ==
    \A t \in BasicFailed :
        fw[t].posted = << StatusMsg("Fetching video information..."),
                          StatusMsg(Classify(fw[t].exc)) >>

\* C9: a run in which an external call failed ends normally with a Status
\* message posted after the failure: no ended run of either worker has a
\* failure that no later Status message followed
C9_FailuresReported ==
    /\ \A t \in FetchIds : fw[t].pc = "done" => ~fw[t].pending
    /\ \A t \in DownloadIds : dw[t].pc = "done" => ~dw[t].pending

\* A Download Worker has ended after a failed download, its error message
\* being the last Status message it posted
C9_Witness ==
    \E t \in DownloadIds :
        /\ dw[t].pc = "done" /\ dw[t].exc /= ""
        /\ StatusMsg("Download error: " \o dw[t].exc)
                = dw[t].posted[Len(dw[t].posted) - 1]

\* The positions of the Result messages among the messages a fetch thread posted
ResultsAt(t) == {j \in 1..Len(fw[t].posted) : fw[t].posted[j].type = "videos"}

\* The number of descriptors of a complete list of fetch thread t
CompleteCount(t) ==
    IF IsPlaylist(fw[t].info)
    THEN Min(Len(NonNull(fw[t].info.entries)), PlaylistLimit)
    ELSE 1

\* C10: a Fetch Worker run posts at most one Result; the Result carries the
\* complete list and is followed by exactly one message, the Status message
\* giving the count, after which the run is over
C10_OneCompleteResult ==
    \A t \in FetchIds :
        /\ Cardinality(ResultsAt(t)) <= 1
        /\ \A j \in ResultsAt(t) :
              /\ fw[t].posted[j] = VideosMsg(t)
              /\ fw[t].pc \in {"post_status", "done"}
              /\ fw[t].pc = "post_status" =>
                    /\ j = Len(fw[t].posted)
                    /\ Len(heap[t]) = CompleteCount(t)
              /\ fw[t].pc = "done" =>
                    /\ Len(fw[t].posted) = j + 1
                    /\ fw[t].posted[j + 1] =
                          StatusMsg("Successfully loaded "
                                    \o ToString(CompleteCount(t)) \o " video(s)")

\* A run over a collection that has ended after posting its Result
C10_Witness ==
    \E t \in FetchIds :
        /\ fw[t].pc = "done"
        /\ IsPlaylist(fw[t].info)
        /\ ResultsAt(t) /= {}

-----------------------------------------------------------------------------
(* Properties of the message queue and of update, checked under Spec *)

\* The messages of log from position k + 1 on
Suffix(log, k) == SubSeq(log, k + 1, Len(log))

\* q is an interleaving of a and b that keeps the order of each
RECURSIVE IsMerge(_, _, _)
IsMerge(q, a, b) ==
    IF q = << >> THEN a = << >> /\ b = << >>
    ELSE \/ a /= << >> /\ Head(q) = Head(a) /\ IsMerge(Tail(q), Tail(a), b)
         \/ b /= << >> /\ Head(q) = Head(b) /\ IsMerge(Tail(q), a, Tail(b))

\* The value carried by the last message of the given type in q, or default
LastOfType(q, type, field, default) ==
    LET at == {j \in 1..Len(q) : q[j].type = type}
    IN  IF at = {} THEN default
        ELSE q[CHOOSE j \in at : \A k \in at : k <= j][field]

\* A step of update or of the quit iteration: the queue is taken
DrainStep == Update \/ Quit

\* C11: the messages of a worker are applied in the order it posted them,
\* none lost, repeated or overtaken, whatever the other worker posts between
\* them: a put appends one message at the tail of the queue, the messages not
\* yet applied are an order-keeping interleaving of the tails of the two
\* workers' logs, and a step that takes messages out of the queue takes them
\* all and applies them head first, so that the last message of each type is
\* the one whose value remains
C11_AppliedInPostOrder ==
    /\ []((fetch_thread <= 1 /\ download_thread <= 1) =>
            \E kf \in 0..Len(fw[1].posted) :
                LET kd == Len(fw[1].posted) - kf + Len(dw[1].posted)
                              - Len(message_queue)
                IN  /\ kd \in 0..Len(dw[1].posted)
                    /\ IsMerge(message_queue, Suffix(fw[1].posted, kf),
                               Suffix(dw[1].posted, kd)))
    /\ [][/\ \A t \in FetchIds :
               (FetchIsAlive(t) /\ fw'[t].posted /= fw[t].posted) =>
                   \E m \in {fw'[t].posted[Len(fw'[t].posted)]} :
                       /\ fw'[t].posted = Append(fw[t].posted, m)
                       /\ message_queue' = Append(message_queue, m)
          /\ \A t \in DownloadIds :
               (DownloadIsAlive(t) /\ dw'[t].posted /= dw[t].posted) =>
                   \E m \in {dw'[t].posted[Len(dw'[t].posted)]} :
                       /\ dw'[t].posted = Append(dw[t].posted, m)
                       /\ message_queue' = Append(message_queue, m)
          /\ Len(message_queue') < Len(message_queue) =>
               /\ message_queue' = << >>
               /\ status_text' = LastOfType(message_queue, "status", "text",
                                            status_text)
               /\ progress_text' = LastOfType(message_queue, "progress", "text",
                                              progress_text)
               /\ videos' = LastOfType(message_queue, "videos", "list", videos)]_vars

\* Messages of the two workers are interleaved in the queue: the first message
\* of the Download Worker lies before the last message of the Fetch Worker
C11_Witness ==
    /\ fw[1].pc = "done"
    /\ Len(dw[1].posted) = 1
    /\ message_queue = << dw[1].posted[1], fw[1].posted[Len(fw[1].posted)] >>

\* C12: the drain never waits for a message: on an empty queue update can be
\* taken at once, applies nothing and leaves the video list, the status text
\* and the progress text as they were; on any queue it leaves the queue empty
C12_DrainNeverWaits ==
    /\ []((running /\ message_queue = << >>) => ENABLED Update)
    /\ [][DrainStep =>
            /\ message_queue' = << >>
            /\ message_queue = << >> =>
                  /\ videos' = videos
                  /\ heap'[videos] = heap[videos]
                  /\ status_text' = status_text
                  /\ progress_text' = progress_text]_vars

\* A drain has applied a Result and a Status message and has left the queue
\* empty, the worker that posted them being still at work
C12_Witness ==
    /\ message_queue = << >>
    /\ running
    /\ videos /= 0
    /\ FetchThreadAlive

-----------------------------------------------------------------------------
(* The duration formatter, checked under SpecFormat *)

\* The durations of the single video of SpecFormat
DurationInputs == (0..MaxSeconds) \cup {36000, 86399, 360000}

\* The shallow extraction of UrlSingle has returned a video of s seconds, for
\* any s of DurationInputs: the state of fetch thread 1 at the playlist test
InitFormat ==
    /\ url_text = UrlSingle
    /\ videos = 0
    /\ heap = [o \in 0..MaxRuns |-> << >>]
    /\ status_text = "Ready"
    /\ progress_text = ""
    /\ fetch_thread = 1
    /\ download_thread = 0
    /\ cancel_download = FALSE
    /\ message_queue = << StatusMsg("Fetching video information...") >>
    /\ fetch_enabled = TRUE
    /\ download_enabled = TRUE
    /\ cancel_enabled = TRUE
    /\ running = TRUE
    /\ \E s \in DurationInputs :
          fw = [t \in FetchIds |->
                  IF t = 1
                  THEN [FetchUnborn EXCEPT
                          !.pc = "branch", !.url = UrlSingle,
                          !.info = [id |-> "a1", title |-> "Alpha (flat)",
                                    duration |-> s, uploader |-> "Chan A"],
                          !.posted = << StatusMsg("Fetching video information...") >>]
                  ELSE FetchUnborn]
    /\ dw = [t \in DownloadIds |-> DownloadUnborn]

\* The single-video branch of the Fetch Worker, and update
NextFormat ==
    \/ \E t \in FetchIds : FetchBranch(t)
    \/ \E t \in FetchIds : FetchSingle(t)
    \/ \E t \in FetchIds : FetchPostResult(t)
    \/ \E t \in FetchIds : FetchPostStatus(t)
    \/ Update

SpecFormat == InitFormat /\ [][NextFormat]_vars

\* n written with two digits
TwoDigits(n) == ToString(n \div 10) \o ToString(n % 10)

\* "M:SS" below one hour, "H:MM:SS" from one hour on
DurationText(s) ==
    IF s < 3600
    THEN ToString(s \div 60) \o ":" \o TwoDigits(s % 60)
    ELSE ToString(s \div 3600) \o ":" \o TwoDigits((s % 3600) \div 60)
             \o ":" \o TwoDigits(s % 60)

-----------------------------------------------------------------------------
(* Properties of a Download Worker run, checked under Spec *)

\* C14: the selected items are downloaded in list order, one at a time: the
\* downloads that have returned are the first items of the selection in
\* order, item i+1 is started only when exactly items 1..i have returned, and
\* a run that ends neither cancelled nor failed has downloaded every selected
\* item once
C14_DownloadsInOrder ==
    \A t \in DownloadIds :
        /\ Len(dw[t].downloads) <= Len(dw[t].selected_videos)
        /\ dw[t].downloads = IdsOf(dw[t].selected_videos, Len(dw[t].downloads))
        /\ dw[t].pc \in {"check", "download"} => Len(dw[t].downloads) = dw[t].i
        /\ dw[t].pc = "download" => dw[t].i < Len(dw[t].selected_videos)
        /\ (dw[t].pc \in {"clear", "done"} /\ dw[t].exc = ""
                /\ dw[t].cancelled_at = 0) =>
              Len(dw[t].downloads) = Len(dw[t].selected_videos)

\* The second of two selected items is being downloaded, the first has returned
C14_Witness ==
    \E t \in DownloadIds :
        /\ dw[t].pc = "download"
        /\ dw[t].i = 1
        /\ dw[t].downloads = << dw[t].selected_videos[1].id >>
        /\ Len(dw[t].selected_videos) = 2

\* The download threads one of whose downloads has raised
DownloadFailed == {t \in DownloadIds : dw[t].exc /= ""}

\* C15: when the download of item k raises, the run posts a Status message
\* with the error text, then a Progress message of empty text, and returns:
\* item k is not retried and no item after k is attempted
C15_FailureEndsBatch ==
    \A t \in DownloadFailed :
        LET p == dw[t].posted
            error == StatusMsg("Download error: " \o dw[t].exc)
        IN  /\ dw[t].pc \in {"error", "clear", "done"}
            /\ Len(dw[t].downloads) = dw[t].i
            /\ dw[t].downloads = IdsOf(dw[t].selected_videos, dw[t].i)
            /\ dw[t].pc = "clear" => p[Len(p)] = error
            /\ dw[t].pc = "done" =>
                  /\ p[Len(p) - 1] = error
                  /\ p[Len(p)] = ProgressMsg("")

\* The download of the first of two selected items raised and the run has ended
C15_Witness ==
    \E t \in DownloadFailed :
        /\ dw[t].pc = "done"
        /\ dw[t].i = 0
        /\ Len(dw[t].selected_videos) = 2
        /\ dw[t].downloads = << >>

\* The download threads that have ended after going through all their items
DownloadCompleted ==
    {t \in DownloadIds : /\ dw[t].pc = "done" /\ dw[t].selected_videos /= << >>
                         /\ dw[t].exc = "" /\ dw[t].cancelled_at = 0}

\* text begins with head
StartsWith(text, head) ==
    Len(text) >= Len(head) /\ SubSeq(text, 1, Len(head)) = head

\* C16: a run that completes its N selected items without seeing the flag set
\* ends with a Status message giving the count and then a Progress message of
\* empty text, and before them has posted exactly N Progress messages of
\* non-empty text, numbered 1/N .. N/N in that order
C16_CompletionMessages ==
    \A t \in DownloadCompleted :
        LET p == dw[t].posted
            N == Len(dw[t].selected_videos)
            progress == SelectSeq(SubSeq(p, 1, Len(p) - 2),
                                  LAMBDA m : m.type = "progress" /\ m.text /= "")
        IN  /\ Len(p) >= 2
            /\ p[Len(p) - 1] = StatusMsg("Successfully downloaded " \o ToString(N)
                                          \o " video(s)")
            /\ p[Len(p)] = ProgressMsg("")
            /\ Len(progress) = N
            /\ \A j \in 1..N :
                  StartsWith(progress[j].text,
                             "Downloading " \o ToString(j) \o "/" \o ToString(N) \o ": ")

\* A run of two selected items has completed
C16_Witness ==
    \E t \in DownloadCompleted : Len(dw[t].selected_videos) = 2

\* C17: the items a Download Worker run takes for download are the items that
\* were selected when the download click was handled: the selection its
\* filter keeps, at its first step, is the selection found by that click
C17_SelectionAtClick ==
    [][\A t \in DownloadIds :
          (dw[t].pc = "start" /\ dw'[t].pc \in {"check", "done"}) =>
              dw'[t].selected_videos = dw[t].selected_at_click]_vars

-----------------------------------------------------------------------------
(* Frame properties of the workers and of the clicks, checked under Spec *)

\* A step taken by a running worker thread: its position or locals change
WorkerStep ==
    \/ \E t \in FetchIds : FetchIsAlive(t) /\ fw'[t] /= fw[t]
    \/ \E t \in DownloadIds : DownloadIsAlive(t) /\ dw'[t] /= dw[t]

\* C18: a step of a Fetch Worker or of a Download Worker leaves the current
\* video list, the selected flag of each of its items, the status text, the
\* progress text, the two thread handles and the cancel flag unchanged; what
\* it does to the queue is at most one put
C18_WorkersOnlyPost ==
    [][WorkerStep =>
          /\ videos' = videos
          /\ heap'[videos] = heap[videos]
          /\ status_text' = status_text
          /\ progress_text' = progress_text
          /\ fetch_thread' = fetch_thread
          /\ download_thread' = download_thread
          /\ cancel_download' = cancel_download
          /\ \/ message_queue' = message_queue
             \/ /\ Len(message_queue') = Len(message_queue) + 1
                /\ SubSeq(message_queue', 1, Len(message_queue)) = message_queue]_vars

\* A Fetch Worker has built and posted its list and nothing the user sees has
\* changed yet
C18_Witness ==
    \E t \in FetchIds :
        /\ fw[t].pc = "post_status"
        /\ heap[t] /= << >>
        /\ videos = 0
        /\ status_text = "Ready"
        /\ progress_text = ""

\* C19: a fetch click handled while a Fetch Worker is active changes nothing:
\* no thread is started, nothing is posted, the handles, the cancel flag, the
\* video list and the texts stay as they were
C19_FetchClickWhileBusy ==
    [][(ClickFetch /\ FetchThreadAlive) => UNCHANGED vars]_vars

\* A fetch click can be handled while a Fetch Worker is active
C19_Witness == FetchThreadAlive /\ Strip(url_text) /= "" /\ ENABLED ClickFetch

-----------------------------------------------------------------------------
(* The button states *)

\* An event handler ran its body: a thread of the kind was started, or the
\* cancellation flag was set while the application goes on
FetchTaken == fetch_thread' /= fetch_thread
DownloadTaken == download_thread' /= download_thread
CancelTaken == ~cancel_download /\ cancel_download' /\ running'

\* No click is taken by a button whose enabled flag is false
DisabledRefused ==
    /\ FetchTaken => fetch_enabled
    /\ DownloadTaken => download_enabled
    /\ CancelTaken => cancel_enabled

\* C21 as written: at the end of every update the fetch button is enabled iff
\* the text of the input field is non-empty, the download button iff the list
\* is non-empty and no Download Worker is active, the cancel button iff a
\* Download Worker is active; and no disabled button takes a click.
C21_AsWritten ==
    [][/\ (message_queue' = << >> /\ DrainStep) =>
            /\ fetch_enabled' = (url_text' /= "")
            /\ download_enabled' = (heap'[videos'] /= << >> /\ ~DownloadThreadAlive')
            /\ cancel_enabled' = DownloadThreadAlive'
       /\ DisabledRefused]_vars

\* C21: at the end of every update the fetch button is enabled iff the text of
\* the input field, stripped of the spaces around it, is non-empty, the
\* download button iff the list is non-empty and no Download Worker is active,
\* the cancel button iff a Download Worker is active; and no disabled button
\* takes a click.
C21_EnablementFlags ==
    [][/\ (message_queue' = << >> /\ DrainStep) =>
            /\ fetch_enabled' = (Strip(url_text') /= "")
            /\ download_enabled' = (heap'[videos'] /= << >> /\ ~DownloadThreadAlive')
            /\ cancel_enabled' = DownloadThreadAlive'
       /\ DisabledRefused]_vars

\* An update has left the three buttons disabled: the text is made of spaces,
\* there is no list and no Download Worker
C21_Witness ==
    url_text = TextBlank /\ ~fetch_enabled /\ ~download_enabled /\ ~cancel_enabled

-----------------------------------------------------------------------------
(* Cancellation and the item in progress *)

\* The items run t has started: one "Downloading i/N" Progress per item
StartedItems(t) ==
    Cardinality({j \in 1..Len(dw[t].posted) :
                    dw[t].posted[j].type = "progress" /\ dw[t].posted[j].text /= ""})

\* The success Status of run t
SuccessStatus(t) ==
    StatusMsg("Successfully downloaded " \o ToString(Len(dw[t].selected_videos))
              \o " video(s)")

\* Run t has downloaded every selected item
AllDownloaded(t) ==
    /\ dw[t].pc \in {"clear", "done"}
    /\ dw[t].selected_videos /= << >>
    /\ Len(dw[t].downloads) = Len(dw[t].selected_videos)

\* C22: cancellation acts between items only. While an item is being
\* downloaded the run is not cancelled, whatever the flag; a cancelled run was
\* cancelled at the check before an item, every item it had started having been
\* downloaded in full; and a run that downloaded its last item ends with the
\* success Status and without "Download cancelled", even when the flag was set
\* after that item had started.
C22_ItemGranularity ==
    \A t \in DownloadIds :
        /\ dw[t].pc = "download" =>
              /\ dw[t].cancelled_at = 0
              /\ StartedItems(t) = Len(dw[t].downloads) + 1
        /\ dw[t].cancelled_at > 0 =>
              /\ dw[t].pc = "done"
              /\ StartedItems(t) = Len(dw[t].downloads)
              /\ dw[t].cancelled_at = StartedItems(t) + 1
              /\ dw[t].posted[Len(dw[t].posted)] = StatusMsg("Download cancelled")
        /\ AllDownloaded(t) =>
              /\ \E j \in 1..Len(dw[t].posted) : dw[t].posted[j] = SuccessStatus(t)
              /\ \A j \in 1..Len(dw[t].posted) :
                    dw[t].posted[j] /= StatusMsg("Download cancelled")
              /\ dw[t].cancelled_at = 0

\* The flag was set after the last check of a run of two items, which has
\* posted its success Status and is still active
C22_Witness ==
    /\ running /\ cancel_download
    /\ \E t \in DownloadIds :
          /\ dw[t].pc = "clear"
          /\ Len(dw[t].downloads) = 2
          /\ dw[t].posted[Len(dw[t].posted)] = SuccessStatus(t)

-----------------------------------------------------------------------------
(* The descriptors of a Result *)

\* No two descriptors of list have the same id
UniqueIds(list) ==
    \A j, k \in 1..Len(list) : j /= k => list[j].id /= list[k].id

\* C23: no two descriptors have the same id, in the list of every Result a
\* Fetch Worker has just posted and in the Coordinator's list.
C23_UniqueIds ==
    /\ \A t \in FetchIds : fw[t].pc = "post_status" => UniqueIds(heap[t])
    /\ UniqueIds(heap[videos])

-----------------------------------------------------------------------------
(* The Coordinator's list *)

\* The step negates the selected flag of one descriptor of the Coordinator's
\* list and changes nothing else of the list
TogglesOne ==
    \E i \in 1..Len(heap[videos]) :
        heap'[videos] = [heap[videos] EXCEPT ![i].selected = ~heap[videos][i].selected]

\* C24: an update that takes Results (the only step that shortens the queue)
\* makes the list of the last of them the Coordinator's list, as the Fetch
\* Worker built it and with every descriptor unselected, whatever the
\* previous list and its selections were; the list is replaced by no other
\* step; and while the list object stays the same its content changes only by
\* the Coordinator negating one selected flag.
C24_ResultReplacesList ==
    [][/\ Len(message_queue') < Len(message_queue) =>
            videos' = LastOfType(message_queue, "videos", "list", videos)
       /\ videos' /= videos =>
            /\ Len(message_queue') < Len(message_queue)
            /\ UNCHANGED << fw, dw >>
            /\ heap'[videos'] = heap[videos']
            /\ \A j \in 1..Len(heap'[videos']) : ~heap'[videos'][j].selected
       /\ (videos' = videos /\ heap'[videos] /= heap[videos]) =>
            /\ TogglesOne
            /\ UNCHANGED << coordVars, message_queue, fw, dw >>]_vars

\* The Coordinator's list, the one of a first Result, has a selected
\* descriptor, and the update is about to take a second Result
C24_Witness ==
    /\ running /\ videos = 1
    /\ \E j \in 1..Len(heap[1]) : heap[1][j].selected
    /\ \E k \in 1..Len(message_queue) : message_queue[k] = VideosMsg(2)

-----------------------------------------------------------------------------
(* The Status messages of a collection fetch *)

\* The Status announcing entry j of n
ProcessingStatus(j, n) ==
    StatusMsg("Processing video " \o ToString(j) \o "/" \o ToString(n) \o "...")

\* The runs that are in, or past, the loop over the entries of a collection
InCollection ==
    {t \in FetchIds : /\ fw[t].pc \in {"loop", "detail", "post_status", "done"}
                      /\ fw[t].info /= None /\ IsPlaylist(fw[t].info)}

\* The entries run t has announced: all those before the loop index, and the
\* one being worked on
Announced(t) == IF fw[t].pc = "detail" THEN fw[t].i + 1 ELSE fw[t].i

\* C25: a collection fetch over N capped entries has posted, after its two
\* opening Statuses, "Processing video j/N..." for j = 1, 2, ... in increasing
\* order and nothing in between, up to the entry it is working on, whose
\* Status is posted before the work on it begins; the Result comes after the
\* N-th of them.
C25_ProcessingInOrder ==
    \A t \in InCollection :
        LET n == Len(fw[t].entries)
            k == Announced(t)
            after == CASE fw[t].pc = "post_status" -> 1
                       [] fw[t].pc = "done" -> 2
                       [] OTHER -> 0
        IN  /\ Len(fw[t].posted) = 2 + k + after
            /\ \A j \in 1..k : fw[t].posted[2 + j] = ProcessingStatus(j, n)
            /\ fw[t].pc = "detail" =>
                  fw[t].posted[Len(fw[t].posted)] = ProcessingStatus(fw[t].i + 1, n)
            /\ after > 0 => k = n /\ fw[t].posted[2 + n + 1] = VideosMsg(t)

\* The Result of a collection of 20 capped entries has been posted
C25_Witness ==
    \E t \in InCollection :
        /\ fw[t].pc = "post_status" /\ Len(fw[t].entries) = PlaylistLimit
        /\ fw[t].posted[2 + PlaylistLimit] = ProcessingStatus(PlaylistLimit, PlaylistLimit)

-----------------------------------------------------------------------------
(* The progress text after a run *)

\* The latest Download Worker has returned and the Coordinator has taken
\* every message it posted
RunDrained ==
    /\ download_thread /= 0
    /\ dw[download_thread].pc = "done"
    /\ message_queue = << >>

\* C26: once a Download Worker has returned, after its last item, after a
\* failure or after a cancellation, and the Coordinator has taken all its
\* messages, the progress text is the empty string.
C26_ProgressCleared == RunDrained => progress_text = ""

-----------------------------------------------------------------------------
(* Termination after a cancellation *)

\* The flag is set while a Download Worker is active and the application runs
CancelRequested == running /\ cancel_download /\ DownloadThreadAlive

\* No Download Worker is active and the download button, enabled, would start one
CanDownloadAgain == ~DownloadThreadAlive /\ download_enabled /\ DownloadAccepted

\* C27: under fair scheduling, once the flag is set while a Download Worker is
\* active, the application quits or the worker returns and the Coordinator
\* reaches a state where a download click starts a new worker; and no item is
\* started while the flag is set, so the worker starts none after the one in
\* progress when the flag was set.
C27_CancelTerminates ==
    /\ [][\A t \in DownloadIds :
            (dw[t].pc /= "download" /\ dw'[t].pc = "download") => ~cancel_download]_vars
    /\ CancelRequested ~> (~running \/ CanDownloadAgain)

\* A cancelled worker has returned and the download button is enabled again
C27_Witness ==
    /\ running /\ CanDownloadAgain
    /\ download_thread /= 0 /\ dw[download_thread].cancelled_at > 0

-----------------------------------------------------------------------------
(* The Result of a collection *)

\* The runs whose shallow extraction returned a collection, with or without
\* entries, and which have just posted their Result
CollectionPosted ==
    {t \in FetchIds : fw[t].pc = "post_status" /\ "entries" \in DOMAIN fw[t].info}

\* C28: a fetch whose shallow resolution returned a collection is handled as
\* a collection, one without entries included: it posts "Found playlist with
\* N videos. Getting details...", its Result carries no more descriptors than
\* the collection has non-null entries, and none for a collection without
\* entries.
C28_CollectionResult ==
    \A t \in CollectionPosted :
        /\ fw[t].posted[2] =
              StatusMsg("Found playlist with " \o ToString(Len(fw[t].entries))
                        \o " videos. Getting details...")
        /\ Len(heap[t]) <= Len(NonNull(fw[t].info.entries))
        /\ fw[t].info.entries = << >> => heap[t] = << >>

====
